---- MODULE Spec2Model ----
(***************************************************************************)
(* Client-side resilience layer of the attendance app.                     *)
(*                                                                         *)
(*   SpecApi : the axios API client (mobile api.ts, web api.ts): request   *)
(*             interceptor, 401 response interceptor, isRefreshing flag,   *)
(*             failedQueue wait-list, token storage.                       *)
(*   Spec    : the offline queue store (offlineStore.ts) driven by the     *)
(*             useOfflineSync hook, over an encrypted key/value storage    *)
(*             whose operations complete asynchronously.                   *)
(***************************************************************************)
EXTENDS Integers, Sequences, FiniteSets, TLC

VARIABLES
    \* ---- API client ----
    platform,       \* "mobile" | "web": which api.ts is running
    accessToken,    \* storage: access token (0 = absent)
    refreshToken,   \* storage: refresh token (0 = absent, -1 = the string "undefined")
    isRefreshing,   \* module-level flag
    failedQueue,    \* module-level wait-list: sequence of parked calls
    call,           \* per call: promise state and the request config
    n401,           \* number of 401 responses the backend has produced
    issued,         \* number of refresh exchanges sent to the backend
    epExch,         \* refresh exchanges sent since isRefreshing was last set
    lastExToken,    \* access token returned by the latest successful exchange
    \* ---- auth store and, on the web, the page ----
    isAuthenticated,
    navPending      \* web: window.location.href was assigned, the page is unloading

authVars == <<isAuthenticated, navPending>>

apiVars == <<platform, accessToken, refreshToken, isRefreshing, failedQueue,
             call, n401, issued, epExch, lastExToken, authVars>>

VARIABLES
    \* ---- offline queue store (zustand) ----
    queue,          \* in-memory OfflineRecord[]
    isSyncing,
    lastSyncAt,     \* 0 = null, 1 = set
    \* ---- encrypted storage, key offline_queue ----
    stored,         \* [kind: "absent" | "json" | "corrupt", val: OfflineRecord[]]
    storageOps,     \* operations handed to the native storage, oldest first
    \* ---- running invocations ----
    add,            \* addToQueue: [pc, id, result]
    drain,          \* syncNow invocations: syncAll locals and position
    load,           \* loadQueue: [pc, val]
    \* ---- useOfflineSync hook ----
    isOnline,       \* isOnlineRef.current
    pendingSeen,    \* pendingCount captured by the effect closure
    \* ---- history ----
    nextId,         \* next record id
    delivered       \* ids of which the backend has accepted a submission

storeVars == <<queue, isSyncing, lastSyncAt, stored, storageOps, add, drain, load,
               isOnline, pendingSeen, nextId, delivered>>

VARIABLES
    \* ---- logout and the rest of the auth store ----
    sess,           \* [user, tenant, pc, result]: auth store fields, logout in progress
    \* ---- web theme store ----
    theme,          \* store fields, localStorage items and document attributes
    \* ---- helpers called with a value ----
    probeIn,        \* the argument
    probeOut        \* the results returned so far

appVars == <<sess, theme, probeIn, probeOut>>

vars == <<apiVars, storeVars, appVars>>

(***************************************************************************)
(* Bounds                                                                  *)
(***************************************************************************)
NumCalls == 3       \* calls the application issues
Max401 == 3         \* 401 responses the backend produces in one run

MAX_QUEUE_SIZE == 2 \* OFFLINE_CONFIG.MAX_QUEUE_SIZE, scaled down from 50
MaxEvents == 3      \* record ids addToQueue creates in one run
MaxDrains == 2      \* syncNow invocations that start a drain in one run

Calls == 1..NumCalls
Drains == 1..MaxDrains
Ids == 1..MaxEvents

UndefinedStr == -1  \* localStorage.setItem(key, undefined) stores "undefined"

(***************************************************************************)
(* API client                                                              *)
(***************************************************************************)
NewCall == [st |-> "new", retry |-> FALSE, auth |-> 0, sends |-> 0,
            err |-> "none", rt |-> 0, exToken |-> 0, exRefresh |-> 0,
            rerr |-> "none", ui |-> "none"]

InitApi ==
    /\ accessToken = 1
    /\ refreshToken = 1
    /\ isRefreshing = FALSE
    /\ failedQueue = <<>>
    /\ call = [c \in Calls |-> NewCall]
    /\ n401 = 0
    /\ issued = 0
    /\ epExch = 0
    /\ lastExToken = 0
    /\ isAuthenticated = TRUE
    /\ navPending = FALSE

\* the user is logged in, the theme store is at its defaults, no helper has
\* been called
LightEn == [theme |-> "light", language |-> "en",
            storedTheme |-> "light", storedLanguage |-> "en",
            dark |-> FALSE, dir |-> "ltr", lang |-> "en",
            op |-> "load", prev |-> "light"]

InitApp ==
    /\ sess = [user |-> "user", tenant |-> "tenant", pc |-> "idle", result |-> "none"]
    /\ theme = LightEn
    /\ probeIn = <<>>
    /\ probeOut = <<>>

\* error.response is set: the backend answered ("401", "http", and the 401 of
\* the refresh endpoint); a transport failure and new Error('No refresh token')
\* carry no response
HasResponse(e) == e \in {"401", "http", "refresh401"}

\* secureStorage.remove(key) / localStorage.removeItem(key): the item is absent
RemoveItemNoop(v) == v
RemoveItem(v) == 0

\* secureStorage.set(key, value) / localStorage.setItem(key, value)
SetItemSkipped(old, new) == old
SetItem(old, new) == new

\* finally { isRefreshing = false }
FinallySkipped(flag) == flag
FinallyReset(flag) == FALSE

\* request interceptor: attach the storedTok access token when there is one
AttachToken(storedTok, header) == IF storedTok # 0 THEN storedTok ELSE header

\* if (isRefreshing): park the call on the wait-list
ShouldParkAlways(refreshing) == FALSE
ShouldPark(refreshing) == refreshing

\* the parked resolve callback / the refresher's replay: set the header to the
\* token of the exchange, then api(originalRequest) runs the request interceptor
ReplayAuthStale(storedTok, token, old) == old
ReplayAuth(storedTok, token, old) == AttachToken(storedTok, token)

Replayed(r, storedTok, token) ==
    [r EXCEPT !.st = "sent", !.auth = ReplayAuth(storedTok, token, r.auth),
              !.sends = r.sends + 1]

Parked == {failedQueue[i] : i \in 1..Len(failedQueue)}

\* processQueue(null, token): every parked promise resolves by replaying
ProcessQueueResolve(cs, storedTok, token) ==
    [c \in Calls |-> IF c \in Parked THEN Replayed(cs[c], storedTok, token) ELSE cs[c]]

\* processQueue(error, null): every parked promise rejects with the error
ProcessQueueReject(cs, e) ==
    [c \in Calls |-> IF c \in Parked THEN [cs[c] EXCEPT !.st = "fail", !.err = e]
                     ELSE cs[c]]

\* api(config): request interceptor, then the request is on the wire
Send(c) ==
    /\ call[c].st = "new"
    /\ \A d \in Calls : d < c => call[d].st # "new"
    /\ call' = [call EXCEPT ![c].st = "sent",
                            ![c].auth = AttachToken(accessToken, 0),
                            ![c].sends = 1]
    /\ UNCHANGED <<platform, accessToken, refreshToken, isRefreshing, failedQueue,
                   n401, issued, epExch, lastExToken>>
    /\ UNCHANGED <<authVars, storeVars, appVars>>

\* response => response
Resp200(c) ==
    /\ call[c].st = "sent"
    /\ call' = [call EXCEPT ![c].st = "ok"]
    /\ UNCHANGED <<platform, accessToken, refreshToken, isRefreshing, failedQueue,
                   n401, issued, epExch, lastExToken>>
    /\ UNCHANGED <<authVars, storeVars, appVars>>

\* error without a 401 status: another HTTP status, or no response at all
RespError(c) ==
    /\ call[c].st = "sent"
    /\ \E e \in {"http", "network"} :
          call' = [call EXCEPT ![c].st = "fail", ![c].err = e]
    /\ UNCHANGED <<platform, accessToken, refreshToken, isRefreshing, failedQueue,
                   n401, issued, epExch, lastExToken>>
    /\ UNCHANGED <<authVars, storeVars, appVars>>

\* 401 on a request that was already retried: reject
Resp401Retried(c) ==
    /\ call[c].st = "sent"
    /\ n401 < Max401
    /\ call[c].retry
    /\ n401' = n401 + 1
    /\ call' = [call EXCEPT ![c].st = "fail", ![c].err = "401"]
    /\ UNCHANGED <<platform, accessToken, refreshToken, isRefreshing, failedQueue,
                   issued, epExch, lastExToken>>
    /\ UNCHANGED <<authVars, storeVars, appVars>>

\* 401 while a refresh is running: park on failedQueue
Resp401Park(c) ==
    /\ call[c].st = "sent"
    /\ n401 < Max401
    /\ ~call[c].retry
    /\ ShouldPark(isRefreshing)
    /\ n401' = n401 + 1
    /\ failedQueue' = Append(failedQueue, c)
    /\ call' = [call EXCEPT ![c].st = "parked"]
    /\ UNCHANGED <<platform, accessToken, refreshToken, isRefreshing,
                   issued, epExch, lastExToken>>
    /\ UNCHANGED <<authVars, storeVars, appVars>>

\* 401 with no refresh running: this call becomes the refresher
Resp401Refresh(c) ==
    /\ call[c].st = "sent"
    /\ n401 < Max401
    /\ ~call[c].retry
    /\ ~ShouldPark(isRefreshing)
    /\ n401' = n401 + 1
    /\ isRefreshing' = TRUE
    /\ \/ /\ platform = "mobile"       \* await secureStorage.get(REFRESH_TOKEN)
          /\ call' = [call EXCEPT ![c].retry = TRUE, ![c].st = "getRefresh"]
          /\ epExch' = 0
          /\ UNCHANGED <<accessToken, refreshToken, issued, navPending>>
       \/ /\ platform = "web"          \* getRefreshToken() is absent
          /\ refreshToken = 0
          /\ accessToken' = RemoveItem(accessToken)
          /\ refreshToken' = RemoveItem(refreshToken)
          /\ call' = [call EXCEPT ![c].retry = TRUE, ![c].st = "fail",
                                  ![c].err = "401", ![c].rerr = "norefresh"]
          /\ navPending' = TRUE       \* window.location.href = "/login"
          /\ epExch' = 0
          /\ UNCHANGED issued
       \/ /\ platform = "web"          \* axios.post(refresh) goes out
          /\ refreshToken # 0
          /\ call' = [call EXCEPT ![c].retry = TRUE, ![c].st = "exchange",
                                  ![c].rt = refreshToken]
          /\ issued' = issued + 1
          /\ epExch' = 1
          /\ UNCHANGED <<accessToken, refreshToken, navPending>>
    /\ UNCHANGED <<platform, failedQueue, lastExToken, isAuthenticated>>
    /\ UNCHANGED <<storeVars, appVars>>

\* mobile: secureStorage.get(REFRESH_TOKEN) returned
GetRefresh(c) ==
    /\ call[c].st = "getRefresh"
    /\ \/ /\ refreshToken = 0          \* throw new Error('No refresh token')
          /\ call' = [ProcessQueueReject(call, "norefresh")
                        EXCEPT ![c].st = "rmAccess", ![c].rerr = "norefresh"]
          /\ failedQueue' = <<>>
          /\ UNCHANGED <<issued, epExch>>
       \/ /\ refreshToken # 0          \* axios.post(refresh) goes out
          /\ call' = [call EXCEPT ![c].st = "exchange", ![c].rt = refreshToken]
          /\ issued' = issued + 1
          /\ epExch' = epExch + 1
          /\ UNCHANGED failedQueue
    /\ UNCHANGED <<platform, accessToken, refreshToken, isRefreshing, n401, lastExToken>>
    /\ UNCHANGED <<authVars, storeVars, appVars>>

\* the backend accepts the exchange: {access} and possibly a rotated refresh
ExchangeOk(c) ==
    /\ call[c].st = "exchange"
    /\ \E rot \in {0, issued + 1} :
        LET access == issued + 1 IN
        /\ lastExToken' = access
        /\ \/ /\ platform = "mobile"   \* await secureStorage.set(ACCESS_TOKEN, access)
              /\ call' = [call EXCEPT ![c].st = "setAccess", ![c].exToken = access,
                                      ![c].exRefresh = rot]
              /\ UNCHANGED <<accessToken, refreshToken, isRefreshing, failedQueue>>
           \/ /\ platform = "web"      \* setTokens; processQueue; replay; finally
              /\ accessToken' = SetItem(accessToken, access)
              /\ refreshToken' = SetItem(refreshToken,
                                         IF rot = 0 THEN UndefinedStr ELSE rot)
              /\ call' = [ProcessQueueResolve(call, accessToken', access)
                            EXCEPT ![c] = Replayed([call[c] EXCEPT !.exRefresh = rot],
                                                   accessToken', access)]
              /\ failedQueue' = <<>>
              /\ isRefreshing' = FinallyReset(isRefreshing)
    /\ UNCHANGED <<platform, n401, issued, epExch>>
    /\ UNCHANGED <<authVars, storeVars, appVars>>

\* mobile: the access token is stored; processQueue; replay; finally
SetAccessDone(c) ==
    /\ call[c].st = "setAccess"
    /\ accessToken' = SetItem(accessToken, call[c].exToken)
    /\ call' = [ProcessQueueResolve(call, accessToken', call[c].exToken)
                  EXCEPT ![c] = Replayed(call[c], accessToken', call[c].exToken)]
    /\ failedQueue' = <<>>
    /\ isRefreshing' = FinallyReset(isRefreshing)
    /\ UNCHANGED <<platform, refreshToken, n401, issued, epExch, lastExToken>>
    /\ UNCHANGED <<authVars, storeVars, appVars>>

\* the exchange is rejected by the backend, or produces no response
ExchangeFail(c) ==
    /\ call[c].st = "exchange"
    /\ \E e \in {"refresh401", "refreshnet"} :
        \/ /\ platform = "mobile"      \* processQueue(err); await remove(ACCESS_TOKEN)
           /\ call' = [ProcessQueueReject(call, e)
                         EXCEPT ![c].st = "rmAccess", ![c].rerr = e]
           /\ failedQueue' = <<>>
           /\ UNCHANGED <<accessToken, refreshToken, isRefreshing, navPending>>
        \/ /\ platform = "web"         \* processQueue(err); clearTokens; href; finally
           /\ call' = [ProcessQueueReject(call, e)
                         EXCEPT ![c].st = "fail", ![c].err = e, ![c].rerr = e]
           /\ failedQueue' = <<>>
           /\ accessToken' = RemoveItem(accessToken)
           /\ refreshToken' = RemoveItem(refreshToken)
           /\ navPending' = TRUE       \* window.location.href = "/login"
           /\ isRefreshing' = FinallyReset(isRefreshing)
    /\ UNCHANGED <<platform, n401, issued, epExch, lastExToken, isAuthenticated>>
    /\ UNCHANGED <<storeVars, appVars>>

\* mobile: remove(ACCESS_TOKEN) done; await remove(REFRESH_TOKEN)
RmAccessDone(c) ==
    /\ call[c].st = "rmAccess"
    /\ accessToken' = RemoveItem(accessToken)
    /\ call' = [call EXCEPT ![c].st = "rmRefresh"]
    /\ UNCHANGED <<platform, refreshToken, isRefreshing, failedQueue,
                   n401, issued, epExch, lastExToken>>
    /\ UNCHANGED <<authVars, storeVars, appVars>>

\* mobile: remove(REFRESH_TOKEN) done; Promise.reject(refreshError); finally
RmRefreshDone(c) ==
    /\ call[c].st = "rmRefresh"
    /\ refreshToken' = RemoveItem(refreshToken)
    /\ call' = [call EXCEPT ![c].st = "fail", ![c].err = call[c].rerr]
    /\ isRefreshing' = FinallyReset(isRefreshing)
    /\ UNCHANGED <<platform, accessToken, failedQueue,
                   n401, issued, epExch, lastExToken>>
    /\ UNCHANGED <<authVars, storeVars, appVars>>

\* web: the navigation to /login loads the page anew: the module state of
\* api.ts is re-created, the requests of the old page are abandoned, and the
\* auth store is created with isAuthenticated: !!getAccessToken()
PageLoad ==
    /\ platform = "web"
    /\ navPending
    /\ navPending' = FALSE
    /\ isAuthenticated' = (accessToken # 0)
    /\ isRefreshing' = FALSE
    /\ failedQueue' = <<>>
    /\ call' = [c \in Calls |->
                  IF call[c].st \in {"new", "ok", "fail"} THEN call[c]
                  ELSE [call[c] EXCEPT !.st = "gone"]]
    /\ UNCHANGED <<platform, accessToken, refreshToken, n401, issued, epExch,
                   lastExToken>>
    /\ UNCHANGED <<storeVars, appVars>>

\* steps of the calls through the interceptors
NextCalls ==
    \E c \in Calls :
        \/ Send(c)
        \/ Resp200(c)
        \/ RespError(c)
        \/ Resp401Retried(c)
        \/ Resp401Park(c)
        \/ Resp401Refresh(c)
        \/ GetRefresh(c)
        \/ ExchangeOk(c)
        \/ SetAccessDone(c)
        \/ ExchangeFail(c)
        \/ RmAccessDone(c)
        \/ RmRefreshDone(c)

NextApi ==
    \/ NextCalls
    \/ PageLoad

\* the offline store untouched: the API client is exercised on its own
InitClient ==
    /\ InitApi
    /\ InitApp
    /\ platform \in {"mobile", "web"}
    /\ queue = <<>>
    /\ isSyncing = FALSE
    /\ lastSyncAt = 0
    /\ stored = [kind |-> "absent", val |-> <<>>]
    /\ storageOps = <<>>
    /\ add = [pc |-> "idle", id |-> 0, result |-> "none"]
    /\ drain = [d \in Drains |-> [pc |-> "idle"]]
    /\ load = [pc |-> "idle"]
    /\ isOnline = TRUE
    /\ pendingSeen = 0
    /\ nextId = 1
    /\ delivered = {}

SpecApi == InitClient /\ [][NextApi]_vars

\* a request on the wire is answered or times out
Respond(c) == Resp200(c) \/ RespError(c) \/ Resp401Retried(c) \/ Resp401Park(c)
                \/ Resp401Refresh(c)

\* an awaited storage operation or refresh exchange settles
Continue(c) == GetRefresh(c) \/ ExchangeOk(c) \/ SetAccessDone(c) \/ ExchangeFail(c)
                 \/ RmAccessDone(c) \/ RmRefreshDone(c)

FairSpecApi ==
    /\ SpecApi
    /\ \A c \in Calls : WF_vars(Respond(c)) /\ WF_vars(Continue(c))
    /\ WF_vars(PageLoad)

\* axios.create({..., timeout: 30000}): requests made through the instance
\* are aborted after 30 s.  The refresh exchange is a bare axios.post with no
\* config, and axios' default timeout is 0: no timeout
API_TIMEOUT == 30000
InstanceTimeout == API_TIMEOUT
ExchangeTimeout == 0

\* a request with a timeout is answered or aborted; one without may stay
\* pending for ever
SettlesByTimeout(c) ==
    \/ InstanceTimeout > 0 /\ Respond(c)
    \/ ExchangeTimeout > 0 /\ (ExchangeOk(c) \/ ExchangeFail(c))

\* an awaited storage operation completes
StorageDone(c) == GetRefresh(c) \/ SetAccessDone(c) \/ RmAccessDone(c) \/ RmRefreshDone(c)

FairSpecTimeout ==
    /\ SpecApi
    /\ \A c \in Calls : WF_vars(SettlesByTimeout(c)) /\ WF_vars(StorageDone(c))
    /\ WF_vars(PageLoad)

(***************************************************************************)
(* Properties of the API client                                            *)
(***************************************************************************)
Outstanding == {c \in Calls : call[c].st = "exchange"}

Refreshers == {c \in Calls :
                 call[c].st \in {"getRefresh", "exchange", "setAccess",
                                 "rmAccess", "rmRefresh"}}

\* C1: at most one token-refresh exchange is outstanding at any time.
C1_SingleFlightRefresh == Cardinality(Outstanding) <= 1

\* a 401 arrived while the exchange was outstanding and was parked
C1_Witness ==
    \E c, p \in Calls :
        /\ call[c].st = "exchange"
        /\ call[p].st = "parked"
        /\ isRefreshing

\* C6: every call, refresher or parked, is replayed at most once, and a call
\* that was already replayed starts no further refresh.
C6_ReplayedAtMostOnce ==
    \A c \in Calls :
        /\ call[c].sends <= 2
        /\ c \in Refreshers => call[c].sends = 1

\* C7: the calls that received a 401 during one refresh share one exchange:
\* no second exchange is sent while the flag is set, and every call replayed
\* by the refresh carries the access token that exchange returned.
C7_OneExchangeSharedByAll ==
    [][/\ epExch' <= 1
       /\ \A c \in Calls :
            (call[c].st \in {"parked", "exchange", "setAccess"} /\ call'[c].st = "sent")
                => (epExch' = 1 /\ call'[c].auth = lastExToken')]_vars

\* three calls failed with 401 around one refresh and all were replayed with
\* the token of its single exchange
C7_Witness ==
    /\ issued = 1
    /\ epExch = 1
    /\ lastExToken # 0
    /\ \A c \in Calls :
         call[c].st = "sent" /\ call[c].sends = 2 /\ call[c].auth = lastExToken
    /\ Cardinality({c \in Calls : ~call[c].retry}) >= 2

\* the refresh a call started has failed and the call has been rejected
RefreshFailedWith(c, reasons) ==
    call[c].st = "fail" /\ call[c].rerr \in reasons

\* C11: when a refresh fails because the refresh token is absent or the
\* backend rejected the exchange, the originating call and every parked call
\* are rejected with an error that carries a response, so that the clock-in
\* flow does not take it for an unreachable network.
C11_RefreshFailureIsNotNoResponse ==
    \A c \in Calls :
        (call[c].st = "fail" /\ call[c].err \in {"norefresh", "refresh401"})
            => HasResponse(call[c].err)

\* C15: after a refresh has failed because the refresh token was absent or
\* the backend rejected the exchange, both tokens are absent from storage and
\* no further refresh exchange is sent (no login happens in a run).
C15_FailedRefreshClearsTokens ==
    (\E c \in Calls : RefreshFailedWith(c, {"norefresh", "refresh401"}))
        => /\ accessToken = 0
           /\ refreshToken = 0
           /\ Outstanding = {}

\* the backend rejected the exchange of one call; a later call received 401,
\* found no refresh token and was rejected without a second exchange
C15_Witness ==
    /\ issued = 1
    /\ \E c, d \in Calls :
          /\ RefreshFailedWith(c, {"refresh401"})
          /\ RefreshFailedWith(d, {"norefresh"})

\* C16: a stored token is removed only by an unrecoverable refresh failure
\* (refresh token absent, or exchange rejected by the backend); a refresh that
\* ended with no response leaves both tokens stored (no logout happens in a
\* run).
C16_TokensKeptOnNoResponse ==
    [][((accessToken # 0 /\ accessToken' = 0) \/ (refreshToken # 0 /\ refreshToken' = 0))
          => \E c \in Calls :
                /\ call'[c] # call[c]
                /\ call'[c].rerr \in {"norefresh", "refresh401"}]_vars

\* C17: when a refresh has failed, isAuthenticated of the auth store
\* eventually becomes false.
C17_FailedRefreshEndsSession ==
    (\E c \in Calls : RefreshFailedWith(c, {"norefresh", "refresh401", "refreshnet"}))
        ~> ~isAuthenticated

C8_ParkedEventuallySettled ==
    \A c \in Calls : (call[c].st = "parked") ~> (call[c].st # "parked")


(***************************************************************************)
(* Offline queue store and the useOfflineSync hook                         *)
(***************************************************************************)
NewRecord(id) == [id |-> id, synced |-> FALSE, err |-> "none"]

IdleDrain == [pc |-> "idle", pending |-> <<>>, updated |-> <<>>, i |-> 0,
              synced |-> 0, failed |-> 0]

DoneDrain == [IdleDrain EXCEPT !.pc = "done"]

WriteOp(who, d, val) == [op |-> "write", who |-> who, d |-> d, val |-> val]
ReadOp == [op |-> "read", who |-> "load", d |-> 0, val |-> <<>>]

\* the store as created, the hook mounted: its effect has called loadQueue()
Init ==
    /\ InitApi
    /\ InitApp
    /\ platform = "mobile"
    /\ queue = <<>>
    /\ isSyncing = FALSE
    /\ lastSyncAt = 0
    /\ stored = [kind |-> "absent", val |-> <<>>]
    /\ storageOps = <<ReadOp>>
    /\ add = [pc |-> "idle", id |-> 0, result |-> "none"]
    /\ drain = [d \in Drains |-> IdleDrain]
    /\ load = [pc |-> "reading", val |-> [kind |-> "absent", val |-> <<>>]]
    /\ isOnline = TRUE
    /\ pendingSeen = 0
    /\ nextId = 1
    /\ delivered = {}

\* queue.filter(r => !r.synced)
Unsynced(q) == SelectSeq(q, LAMBDA r : ~r.synced)

PendingCount(q) == Len(Unsynced(q))

\* clearSynced: const remaining = queue.filter(r => !r.synced)
RemainingDropHead(q) == IF q = <<>> THEN q ELSE Tail(q)
RemainingAll(q) == q
Remaining(q) == Unsynced(q)

IdsOf(q) == {q[k].id : k \in 1..Len(q)}

\* const pending = queue.filter(r => !r.synced), walked by for (... of pending)
PendingIdsReversed(q) ==
    LET u == Unsynced(q) IN [k \in 1..Len(u) |-> u[Len(u) + 1 - k].id]
PendingIds(q) ==
    LET u == Unsynced(q) IN [k \in 1..Len(u) |-> u[k].id]

\* synced++ in the try, failed++ in the catch
CountSynced(n, outcome) == IF outcome = "ok" THEN n + 1 ELSE n
CountFailedNever(n, outcome) == n
CountFailed(n, outcome) == IF outcome = "ok" THEN n ELSE n + 1

\* updated.findIndex(r => r.id === id); 0 stands for -1
FindIndex(q, id) ==
    IF \E k \in 1..Len(q) : q[k].id = id
    THEN CHOOSE k \in 1..Len(q) :
            /\ q[k].id = id
            /\ \A j \in 1..(k - 1) : q[j].id # id
    ELSE 0

\* updated[idx] = {...updated[idx], synced: true}
MarkSynced(q, id) ==
    LET idx == FindIndex(q, id) IN
    IF idx = 0 THEN q ELSE [q EXCEPT ![idx].synced = TRUE]

\* updated[idx] = {...updated[idx], syncError: msg}
MarkError(q, id, msg) ==
    LET idx == FindIndex(q, id) IN
    IF idx = 0 THEN q ELSE [q EXCEPT ![idx].err = msg]

\* queue.length >= OFFLINE_CONFIG.MAX_QUEUE_SIZE
QueueFullOffByOne(q) == Len(q) > MAX_QUEUE_SIZE
QueueFullNever(q) == FALSE
QueueFull(q) == Len(q) >= MAX_QUEUE_SIZE

\* addToQueue up to its await
AddToQueueStore ==
    /\ add.pc = "idle"
    /\ \/ /\ QueueFull(queue)
          /\ add' = [add EXCEPT !.result = "false"]
          /\ UNCHANGED <<queue, storageOps, nextId>>
       \/ /\ ~QueueFull(queue)
          /\ nextId <= MaxEvents
          /\ queue' = Append(queue, NewRecord(nextId))
          /\ storageOps' = Append(storageOps, WriteOp("add", 0, queue'))
          /\ add' = [pc |-> "writing", id |-> nextId, result |-> "none"]
          /\ nextId' = nextId + 1
    /\ UNCHANGED <<isSyncing, lastSyncAt, stored, drain, load, isOnline,
                   pendingSeen, delivered>>

\* addToQueue called while the API client is at rest
AddToQueue ==
    /\ AddToQueueStore
    /\ UNCHANGED <<apiVars, appVars>>

\* addToQueue: setObject completed; return true
AddWritten ==
    /\ add.pc = "writing"
    /\ storageOps # <<>>
    /\ Head(storageOps).who = "add"
    /\ stored' = [kind |-> "json", val |-> Head(storageOps).val]
    /\ storageOps' = Tail(storageOps)
    /\ add' = [add EXCEPT !.pc = "idle", !.result = "true"]
    /\ UNCHANGED <<queue, isSyncing, lastSyncAt, drain, load, isOnline,
                   pendingSeen, nextId, delivered>>
    /\ UNCHANGED <<apiVars, appVars>>

\* syncNow() -> syncAll() up to its first await; the k-th drain of a run uses
\* slot k, and a syncAll with nothing pending returns {0, 0} at once
StartSyncNow(d) ==
    /\ drain[d].pc = "idle"
    /\ \A e \in Drains : e < d => drain[e].pc # "idle"
    /\ LET pending == PendingIds(queue) IN
       IF Len(pending) = 0
       THEN UNCHANGED <<isSyncing, drain>>
       ELSE /\ isSyncing' = TRUE
            /\ drain' = [drain EXCEPT ![d] =
                  [pc |-> "deliver",
                   pending |-> pending,
                   updated |-> queue, i |-> 1, synced |-> 0, failed |-> 0]]
    /\ UNCHANGED <<queue, lastSyncAt, stored, storageOps, add, load,
                   pendingSeen, nextId, delivered>>
    /\ UNCHANGED <<apiVars, appVars>>

\* if (wasOffline && state.isConnected && pendingCount > 0)
ShouldSyncOnReconnect(wasOffline, connected, pending) ==
    wasOffline /\ connected /\ pending > 0

\* NetInfo listener
NetInfoEvent ==
    \E connected \in BOOLEAN :
        /\ isOnline' = connected
        /\ IF ShouldSyncOnReconnect(~isOnline, connected, pendingSeen)
           THEN \E d \in Drains : StartSyncNow(d)
           ELSE UNCHANGED <<apiVars, appVars, queue, isSyncing, lastSyncAt, stored, storageOps,
                            add, drain, load, pendingSeen, nextId, delivered>>

\* setInterval callback
TimerTick ==
    /\ isOnline /\ pendingSeen > 0
    /\ \E d \in Drains : StartSyncNow(d)
    /\ UNCHANGED isOnline

\* the "Sync Now" button of the dashboard banner
PressSyncNow ==
    /\ PendingCount(queue) > 0
    /\ ~isSyncing
    /\ \E d \in Drains : StartSyncNow(d)
    /\ UNCHANGED isOnline

\* for (const record of pending): the loop ends after the last record of the
\* snapshot; there is no break, return or cancellation inside it
LoopDoneEarly(dr) == TRUE
LoopDone(dr) == dr.i = Len(dr.pending)

\* one delivery of the for loop settles
Deliver(d) ==
    /\ drain[d].pc = "deliver"
    /\ \E outcome \in {"ok", "detail", "Sync failed"} :
        LET dr == drain[d]
            id == dr.pending[dr.i]
            upd == IF outcome = "ok" THEN MarkSynced(dr.updated, id)
                   ELSE MarkError(dr.updated, id, outcome)
            nsynced == CountSynced(dr.synced, outcome)
            nfailed == CountFailed(dr.failed, outcome)
        IN
        /\ delivered' = IF outcome = "ok" THEN delivered \cup {id} ELSE delivered
        /\ \/ /\ ~LoopDone(dr)
              /\ drain' = [drain EXCEPT ![d].updated = upd, ![d].i = dr.i + 1,
                                        ![d].synced = nsynced, ![d].failed = nfailed]
              /\ UNCHANGED <<queue, isSyncing, lastSyncAt, storageOps>>
           \/ /\ LoopDone(dr)
              /\ queue' = upd
              /\ isSyncing' = FALSE
              /\ lastSyncAt' = 1
              /\ storageOps' = Append(storageOps, WriteOp("sync", d, upd))
              /\ drain' = [drain EXCEPT ![d].updated = upd, ![d].pc = "persist",
                                        ![d].synced = nsynced, ![d].failed = nfailed]
    /\ UNCHANGED <<stored, add, load, isOnline, pendingSeen, nextId>>
    /\ UNCHANGED <<apiVars, appVars>>

\* syncAll: setObject completed; syncNow goes on to clearSynced up to its await
SyncPersisted(d) ==
    /\ drain[d].pc = "persist"
    /\ storageOps # <<>>
    /\ Head(storageOps).who = "sync" /\ Head(storageOps).d = d
    /\ stored' = [kind |-> "json", val |-> Head(storageOps).val]
    /\ \/ /\ drain[d].synced > 0
          /\ queue' = Remaining(queue)
          /\ storageOps' = Append(Tail(storageOps), WriteOp("clear", d, queue'))
          /\ drain' = [drain EXCEPT ![d].pc = "clear"]
       \/ /\ drain[d].synced = 0
          /\ storageOps' = Tail(storageOps)
          /\ drain' = [drain EXCEPT ![d] = DoneDrain]
          /\ UNCHANGED queue
    /\ UNCHANGED <<isSyncing, lastSyncAt, add, load, isOnline, pendingSeen,
                   nextId, delivered>>
    /\ UNCHANGED <<apiVars, appVars>>

\* clearSynced: setObject completed
ClearPersisted(d) ==
    /\ drain[d].pc = "clear"
    /\ storageOps # <<>>
    /\ Head(storageOps).who = "clear" /\ Head(storageOps).d = d
    /\ stored' = [kind |-> "json", val |-> Head(storageOps).val]
    /\ storageOps' = Tail(storageOps)
    /\ drain' = [drain EXCEPT ![d] = DoneDrain]
    /\ UNCHANGED <<queue, isSyncing, lastSyncAt, add, load, isOnline, pendingSeen,
                   nextId, delivered>>
    /\ UNCHANGED <<apiVars, appVars>>

\* the effect runs again because pendingCount changed: loadQueue()
\* (one loadQueue in flight at a time)
Effect ==
    /\ PendingCount(queue) # pendingSeen
    /\ load.pc = "idle"
    /\ pendingSeen' = PendingCount(queue)
    /\ load' = [load EXCEPT !.pc = "reading"]
    /\ storageOps' = Append(storageOps, ReadOp)
    /\ UNCHANGED <<queue, isSyncing, lastSyncAt, stored, add, drain, isOnline,
                   nextId, delivered>>
    /\ UNCHANGED <<apiVars, appVars>>

\* secureStorage.getObject after getItem resolved with raw: null for a missing
\* value, JSON.parse inside try/catch otherwise
GetObjectNoCatch(raw) ==
    CASE raw.kind = "json" -> [kind |-> "value", val |-> raw.val]
      [] raw.kind = "absent" -> [kind |-> "null", val |-> <<>>]
      [] OTHER -> [kind |-> "throw", val |-> <<>>]
GetObject(raw) ==
    CASE raw.kind = "json" -> [kind |-> "value", val |-> raw.val]
      [] raw.kind = "absent" -> [kind |-> "null", val |-> <<>>]
      [] OTHER -> [kind |-> "null", val |-> <<>>]

\* loadQueue: the storage executes getItem
LoadRead ==
    /\ load.pc = "reading"
    /\ storageOps # <<>>
    /\ Head(storageOps).op = "read"
    /\ load' = [pc |-> "got", val |-> stored]
    /\ storageOps' = Tail(storageOps)
    /\ UNCHANGED <<queue, isSyncing, lastSyncAt, stored, add, drain, isOnline,
                   pendingSeen, nextId, delivered>>
    /\ UNCHANGED <<apiVars, appVars>>

\* loadQueue: getObject settles; if (stored) set({queue: stored})
LoadSet ==
    /\ load.pc = "got"
    /\ LET res == GetObject(load.val) IN
       /\ queue' = IF res.kind = "value" THEN res.val ELSE queue
       /\ load' = [pc |-> IF res.kind = "throw" THEN "failed" ELSE "idle",
                   val |-> [kind |-> "absent", val |-> <<>>]]
    /\ UNCHANGED <<isSyncing, lastSyncAt, stored, storageOps, add, drain, isOnline,
                   pendingSeen, nextId, delivered>>
    /\ UNCHANGED <<apiVars, appVars>>

Next ==
    \/ AddToQueue
    \/ AddWritten
    \/ NetInfoEvent
    \/ TimerTick
    \/ PressSyncNow
    \/ \E d \in Drains : Deliver(d)
    \/ \E d \in Drains : SyncPersisted(d)
    \/ \E d \in Drains : ClearPersisted(d)
    \/ Effect
    \/ LoadRead
    \/ LoadSet

Spec == Init /\ [][Next]_vars

(***************************************************************************)
(* Startup over missing or unparseable persisted data                      *)
(***************************************************************************)
InitStartup ==
    /\ InitApi
    /\ InitApp
    /\ platform = "mobile"
    /\ queue = <<>>
    /\ isSyncing = FALSE
    /\ lastSyncAt = 0
    /\ stored \in {[kind |-> "absent", val |-> <<>>], [kind |-> "corrupt", val |-> <<>>]}
    /\ storageOps = <<ReadOp>>
    /\ add = [pc |-> "idle", id |-> 0, result |-> "none"]
    /\ drain = [d \in Drains |-> IdleDrain]
    /\ load = [pc |-> "reading", val |-> [kind |-> "absent", val |-> <<>>]]
    /\ isOnline = TRUE
    /\ pendingSeen = 0
    /\ nextId = 1
    /\ delivered = {}

NextStartup ==
    \/ AddToQueue
    \/ AddWritten
    \/ NetInfoEvent
    \/ Effect
    \/ LoadRead
    \/ LoadSet

SpecStartup == InitStartup /\ [][NextStartup]_vars

(***************************************************************************)
(* Scenario: events queued while offline, then the connection returns and  *)
(* the backend accepts every delivery                                      *)
(***************************************************************************)
\* events were queued while offline and persisted; the effect has re-run
InitReconnect ==
    /\ InitApi
    /\ InitApp
    /\ platform = "mobile"
    /\ \E n \in 1..MAX_QUEUE_SIZE :
          /\ queue = [k \in 1..n |-> NewRecord(k)]
          /\ nextId = n + 1
          /\ pendingSeen = n
    /\ stored = [kind |-> "json", val |-> queue]
    /\ isSyncing = FALSE
    /\ lastSyncAt = 0
    /\ storageOps = <<>>
    /\ add = [pc |-> "idle", id |-> nextId - 1, result |-> "true"]
    /\ drain = [d \in Drains |-> IdleDrain]
    /\ load = [pc |-> "idle", val |-> [kind |-> "absent", val |-> <<>>]]
    /\ isOnline = FALSE
    /\ delivered = {}

\* a delivery the backend accepts
DeliverOk(d) ==
    /\ Deliver(d)
    /\ drain'[d].synced = drain[d].synced + 1

\* syncNow has returned: another syncNow can run
SyncNowReturned(d) ==
    /\ drain[d].pc = "done"
    /\ drain' = [drain EXCEPT ![d] = IdleDrain]
    /\ UNCHANGED <<queue, isSyncing, lastSyncAt, stored, storageOps, add, load,
                   isOnline, pendingSeen, nextId, delivered>>
    /\ UNCHANGED <<apiVars, appVars>>

NextReconnect ==
    \/ NetInfoEvent
    \/ TimerTick
    \/ \E d \in Drains : DeliverOk(d)
    \/ \E d \in Drains : SyncPersisted(d)
    \/ \E d \in Drains : ClearPersisted(d)
    \/ \E d \in Drains : SyncNowReturned(d)
    \/ Effect
    \/ LoadRead
    \/ LoadSet

SpecReconnect == InitReconnect /\ [][NextReconnect]_vars

\* requests and storage operations settle, effects run, the interval fires
FairSpecReconnect ==
    /\ SpecReconnect
    /\ WF_vars(TimerTick)
    /\ WF_vars(Effect) /\ WF_vars(LoadRead) /\ WF_vars(LoadSet)
    /\ \A d \in Drains :
          /\ WF_vars(DeliverOk(d))
          /\ WF_vars(SyncPersisted(d))
          /\ WF_vars(ClearPersisted(d))
          /\ WF_vars(SyncNowReturned(d))

(***************************************************************************)
(* logout: authStore.logout -> authService.logout, beside other API calls   *)
(***************************************************************************)
LogoutCall == NumCalls

LoggedOut == [user |-> "null", tenant |-> "null"]

\* no request has gone out; the slot of POST /auth/logout/ is used by logout only
InitLogout ==
    /\ platform \in {"mobile", "web"}
    /\ accessToken = 1
    /\ refreshToken = 1
    /\ isRefreshing = FALSE
    /\ failedQueue = <<>>
    /\ call = [c \in Calls |-> IF c = LogoutCall THEN [NewCall EXCEPT !.st = "idle"]
                                ELSE NewCall]
    /\ n401 = 0
    /\ issued = 0
    /\ epExch = 0
    /\ lastExToken = 0
    /\ isAuthenticated = TRUE
    /\ navPending = FALSE
    /\ InitApp
    /\ queue = <<>>
    /\ isSyncing = FALSE
    /\ lastSyncAt = 0
    /\ stored = [kind |-> "absent", val |-> <<>>]
    /\ storageOps = <<>>
    /\ add = [pc |-> "idle", id |-> 0, result |-> "none"]
    /\ drain = [d \in Drains |-> IdleDrain]
    /\ load = [pc |-> "idle", val |-> [kind |-> "absent", val |-> <<>>]]
    /\ isOnline = TRUE
    /\ pendingSeen = 0
    /\ nextId = 1
    /\ delivered = {}

\* api.post('/auth/logout/', {refresh}) goes out through the request interceptor
LogoutPost ==
    call' = [call EXCEPT ![LogoutCall].st = "sent",
                         ![LogoutCall].auth = AttachToken(accessToken, 0),
                         ![LogoutCall].sends = 1]

\* the store's set({user: null, tenant: null, isAuthenticated: false}) that
\* ends logout; the promise is rejected when an error passed through
LogoutSet(res) ==
    /\ sess' = [user |-> LoggedOut.user, tenant |-> LoggedOut.tenant,
                pc |-> "done", result |-> res]
    /\ isAuthenticated' = FALSE

\* logout() is called.  mobile: await secureStorage.get(REFRESH_TOKEN).
\* web: localStorage is read at once; without a refresh token no request is
\* made and both finally blocks run
Logout ==
    /\ sess.pc = "idle"
    /\ \/ /\ platform = "mobile"
          /\ sess' = [sess EXCEPT !.pc = "getRefresh"]
          /\ UNCHANGED <<accessToken, refreshToken, call, isAuthenticated>>
       \/ /\ platform = "web"
          /\ refreshToken # 0
          /\ LogoutPost
          /\ sess' = [sess EXCEPT !.pc = "post"]
          /\ UNCHANGED <<accessToken, refreshToken, isAuthenticated>>
       \/ /\ platform = "web"
          /\ refreshToken = 0
          /\ accessToken' = RemoveItem(accessToken)
          /\ refreshToken' = RemoveItem(refreshToken)
          /\ LogoutSet("resolved")
          /\ UNCHANGED call
    /\ UNCHANGED <<platform, isRefreshing, failedQueue, n401, issued, epExch,
                   lastExToken, navPending>>
    /\ UNCHANGED <<storeVars, theme, probeIn, probeOut>>

\* mobile: the refresh token was read; if (refresh) post it, else go to finally
LogoutGetRefresh ==
    /\ sess.pc = "getRefresh"
    /\ \/ /\ refreshToken # 0
          /\ LogoutPost
          /\ sess' = [sess EXCEPT !.pc = "post"]
       \/ /\ refreshToken = 0
          /\ sess' = [sess EXCEPT !.pc = "rmAccess"]
          /\ UNCHANGED call
    /\ UNCHANGED <<platform, accessToken, refreshToken, isRefreshing, failedQueue,
                   n401, issued, epExch, lastExToken, authVars>>
    /\ UNCHANGED <<storeVars, theme, probeIn, probeOut>>

\* the POST settled.  mobile: catch {} ignores a failure; finally starts with
\* await remove(ACCESS_TOKEN).  web: no catch: finally { clearTokens() } in the
\* service, finally { clearTokens(); removeItem; set } in the store, and the
\* error of a failed POST goes on to the caller
LogoutSettled ==
    /\ sess.pc = "post"
    /\ call[LogoutCall].st \in {"ok", "fail"}
    /\ \/ /\ platform = "mobile"
          /\ sess' = [sess EXCEPT !.pc = "rmAccess"]
          /\ UNCHANGED <<accessToken, refreshToken, isAuthenticated>>
       \/ /\ platform = "web"
          /\ accessToken' = RemoveItem(accessToken)
          /\ refreshToken' = RemoveItem(refreshToken)
          /\ LogoutSet(IF call[LogoutCall].st = "fail" THEN "rejected" ELSE "resolved")
    /\ UNCHANGED <<platform, isRefreshing, failedQueue, call, n401, issued, epExch,
                   lastExToken, navPending>>
    /\ UNCHANGED <<storeVars, theme, probeIn, probeOut>>

\* mobile finally: remove(ACCESS_TOKEN) done; await remove(REFRESH_TOKEN)
LogoutRmAccess ==
    /\ sess.pc = "rmAccess"
    /\ accessToken' = RemoveItem(accessToken)
    /\ sess' = [sess EXCEPT !.pc = "rmRefresh"]
    /\ UNCHANGED <<platform, refreshToken, isRefreshing, failedQueue, call, n401,
                   issued, epExch, lastExToken, authVars>>
    /\ UNCHANGED <<storeVars, theme, probeIn, probeOut>>

\* remove(REFRESH_TOKEN) done; await remove(USER_DATA)
LogoutRmRefresh ==
    /\ sess.pc = "rmRefresh"
    /\ refreshToken' = RemoveItem(refreshToken)
    /\ sess' = [sess EXCEPT !.pc = "rmUser"]
    /\ UNCHANGED <<platform, accessToken, isRefreshing, failedQueue, call, n401,
                   issued, epExch, lastExToken, authVars>>
    /\ UNCHANGED <<storeVars, theme, probeIn, probeOut>>

\* remove(USER_DATA) done; await remove(TENANT_SLUG)
LogoutRmUser ==
    /\ sess.pc = "rmUser"
    /\ sess' = [sess EXCEPT !.pc = "rmTenant"]
    /\ UNCHANGED <<platform, accessToken, refreshToken, isRefreshing, failedQueue,
                   call, n401, issued, epExch, lastExToken, authVars>>
    /\ UNCHANGED <<storeVars, theme, probeIn, probeOut>>

\* remove(TENANT_SLUG) done; authService.logout returns; the store is set
LogoutRmTenant ==
    /\ sess.pc = "rmTenant"
    /\ LogoutSet("resolved")
    /\ UNCHANGED <<platform, accessToken, refreshToken, isRefreshing, failedQueue,
                   call, n401, issued, epExch, lastExToken, navPending>>
    /\ UNCHANGED <<storeVars, theme, probeIn, probeOut>>

NextLogout ==
    \/ NextCalls
    \/ Logout
    \/ LogoutGetRefresh
    \/ LogoutSettled
    \/ LogoutRmAccess
    \/ LogoutRmRefresh
    \/ LogoutRmUser
    \/ LogoutRmTenant

SpecLogout == InitLogout /\ [][NextLogout]_vars

\* C25: when logout completes, the stored access token and refresh token are
\* absent and the auth store holds user = null, tenant = null and
\* isAuthenticated = false, whether the logout request succeeded or failed.
C25_LogoutClearsSession ==
    [][(sess.pc # "done" /\ sess'.pc = "done")
          => /\ accessToken' = 0
             /\ refreshToken' = 0
             /\ sess'.user = "null"
             /\ sess'.tenant = "null"
             /\ ~isAuthenticated']_vars

\* C26: a failed POST /auth/logout/ is not propagated: logout completes and
\* its promise is resolved.
C26_LogoutFailureNotPropagated ==
    sess.pc = "done" => sess.result = "resolved"

(***************************************************************************)
(* generateIntegrityHash                                                   *)
(***************************************************************************)
\* key names as UTF-16 code units: "a", "ab", "b"
KeyNames == {<<97>>, <<97, 98>>, <<98>>}
MaxValue == 1

\* a payload is its entries in insertion order; values are small numbers
Entries == [key : KeyNames, value : 0..MaxValue]
Payloads ==
    {p \in UNION {[1..n -> Entries] : n \in 0..Cardinality(KeyNames)} :
        \A j, k \in 1..Len(p) : j # k => p[j].key # p[k].key}

\* the same entries inserted in another order
Reorderings(p) ==
    {q \in Payloads : Len(q) = Len(p) /\ {q[i] : i \in 1..Len(q)} = {p[i] : i \in 1..Len(p)}}

\* default sort order of Array.prototype.sort: by code units
RECURSIVE StrLess(_, _)
StrLess(a, b) ==
    IF a = <<>> THEN b # <<>>
    ELSE IF b = <<>> THEN FALSE
    ELSE IF Head(a) # Head(b) THEN Head(a) < Head(b)
    ELSE StrLess(Tail(a), Tail(b))

RECURSIVE InsertKey(_, _)
InsertKey(k, ks) ==
    IF ks = <<>> THEN <<k>>
    ELSE IF StrLess(k, Head(ks)) THEN <<k>> \o ks
    ELSE <<Head(ks)>> \o InsertKey(k, Tail(ks))

\* Object.keys(payload).sort()
RECURSIVE SortKeys(_)
SortKeysNone(ks) == ks
SortKeys(ks) == IF ks = <<>> THEN <<>> ELSE InsertKey(Head(ks), SortKeys(Tail(ks)))

ObjectKeys(p) == [i \in 1..Len(p) |-> p[i].key]
ValueOf(p, k) == p[CHOOSE i \in 1..Len(p) : p[i].key = k].value

\* .reduce((acc, key) => { acc[key] = payload[key]; return acc }, {})
Ordered(p) ==
    LET ks == SortKeys(ObjectKeys(p)) IN
    [i \in 1..Len(ks) |-> [key |-> ks[i], value |-> ValueOf(p, ks[i])]]

\* JSON.stringify of a flat object, as code units: {"k":v,"k":v}
RECURSIVE Members(_)
Members(o) ==
    IF o = <<>> THEN <<>>
    ELSE <<34>> \o Head(o).key \o <<34, 58, 48 + Head(o).value>>
         \o (IF Len(o) > 1 THEN <<44>> ELSE <<>>) \o Members(Tail(o))
Stringify(o) == <<123>> \o Members(o) \o <<125>>

\* 32-bit patterns are kept as two 16-bit halves
\* hash << 5
ShiftLeft5(h) ==
    [hi |-> (32 * h.hi + (32 * h.lo) \div 65536) % 65536, lo |-> (32 * h.lo) % 65536]

\* a - b and a + n on 32-bit patterns
Minus32(a, b) ==
    LET borrow == IF a.lo < b.lo THEN 1 ELSE 0 IN
    [hi |-> (a.hi - b.hi - borrow + 131072) % 65536, lo |-> (a.lo - b.lo + 65536) % 65536]
Plus32(a, n) ==
    [hi |-> (a.hi + (a.lo + n) \div 65536) % 65536, lo |-> (a.lo + n) % 65536]

\* hash = (hash << 5) - hash + char; hash |= 0
HashStep(h, ch) == Plus32(Minus32(ShiftLeft5(h), h), ch)

\* the for loop over data; hash is a 32-bit pattern after every round
RECURSIVE HashLoop(_, _)
HashLoop(data, h) ==
    IF data = <<>> THEN h
    ELSE LET next == HashStep(h, Head(data)) IN
         IF next.hi \in 0..65535 /\ next.lo \in 0..65535
         THEN HashLoop(Tail(data), next)
         ELSE next

\* Math.abs of the signed 32-bit value
MathAbsSkipped(h) == h
MathAbs(h) ==
    IF h.hi < 32768 THEN h
    ELSE [hi |-> (65535 - h.hi + (IF h.lo = 0 THEN 1 ELSE 0)) % 65536,
          lo |-> (65536 - h.lo) % 65536]

Hex4(n) == <<n \div 4096, (n \div 256) % 16, (n \div 16) % 16, n % 16>>

RECURSIVE StripZeros(_)
StripZeros(ds) == IF Len(ds) > 1 /\ Head(ds) = 0 THEN StripZeros(Tail(ds)) ELSE ds

\* .toString(16), as hexadecimal digit values
ToString16(h) == StripZeros(Hex4(h.hi) \o Hex4(h.lo))

RECURSIVE PadStart(_, _)
PadStart(ds, n) == IF Len(ds) >= n THEN ds ELSE PadStart(<<0>> \o ds, n)

generateIntegrityHash(p) ==
    PadStart(ToString16(MathAbs(HashLoop(Stringify(Ordered(p)), [hi |-> 0, lo |-> 0]))), 16)

\* two payloads with the same entries, to be hashed one after the other
InitHash ==
    /\ InitApi
    /\ sess = [user |-> "user", tenant |-> "tenant", pc |-> "idle", result |-> "none"]
    /\ theme = LightEn
    /\ probeIn \in {<<p, q>> : p \in Payloads, q \in Payloads}
    /\ probeIn[2] \in Reorderings(probeIn[1])
    /\ probeOut = <<>>
    /\ platform = "mobile"
    /\ queue = <<>>
    /\ isSyncing = FALSE
    /\ lastSyncAt = 0
    /\ stored = [kind |-> "absent", val |-> <<>>]
    /\ storageOps = <<>>
    /\ add = [pc |-> "idle", id |-> 0, result |-> "none"]
    /\ drain = [d \in Drains |-> IdleDrain]
    /\ load = [pc |-> "idle", val |-> [kind |-> "absent", val |-> <<>>]]
    /\ isOnline = TRUE
    /\ pendingSeen = 0
    /\ nextId = 1
    /\ delivered = {}

\* generateIntegrityHash is called on the next payload
HashPayload ==
    /\ Len(probeOut) < Len(probeIn)
    /\ probeOut' = Append(probeOut, generateIntegrityHash(probeIn[Len(probeOut) + 1]))
    /\ UNCHANGED <<apiVars, storeVars, sess, theme, probeIn>>

NextHash == HashPayload

SpecHash == InitHash /\ [][NextHash]_vars

\* C27: generateIntegrityHash does not depend on the insertion order of the
\* keys: two payloads with the same keys and the same value for each key get
\* the same token (and so does the same payload hashed twice).
C27_HashIgnoresKeyOrder ==
    Len(probeOut) = 2 => probeOut[1] = probeOut[2]

\* three keys inserted in two different orders have both been hashed
C27_Witness ==
    /\ Len(probeOut) = 2
    /\ Len(probeIn[1]) = 3
    /\ probeIn[1] # probeIn[2]
    /\ Len(probeOut[1]) = 16

(***************************************************************************)
(* The payload handleClockIn hands to the offline queue                    *)
(***************************************************************************)
\* "integrity_hash" and "recorded_at" as code units
IntegrityHashKey == <<105, 110, 116, 101, 103, 114, 105, 116, 121, 95, 104, 97, 115, 104>>
RecordedAtKey == <<114, 101, 99, 111, 114, 100, 101, 100, 95, 97, 116>>

\* {...payload, integrity_hash: generateIntegrityHash(payload), recorded_at: timestamp}
OfflinePayload(payload, timestamp) ==
    payload \o <<[key |-> IntegrityHashKey, value |-> generateIntegrityHash(payload)],
                 [key |-> RecordedAtKey, value |-> timestamp]>>

\* the payload with one field removed
Without(p, k) == SelectSeq(p, LAMBDA e : e.key # k)

\* a clock-in payload and the timestamp of the attempt
InitOffline ==
    /\ InitApi
    /\ sess = [user |-> "user", tenant |-> "tenant", pc |-> "idle", result |-> "none"]
    /\ theme = LightEn
    /\ probeIn \in {<<p, t>> : p \in Payloads, t \in 0..MaxValue}
    /\ probeOut = <<>>
    /\ platform = "mobile"
    /\ queue = <<>>
    /\ isSyncing = FALSE
    /\ lastSyncAt = 0
    /\ stored = [kind |-> "absent", val |-> <<>>]
    /\ storageOps = <<>>
    /\ add = [pc |-> "idle", id |-> 0, result |-> "none"]
    /\ drain = [d \in Drains |-> IdleDrain]
    /\ load = [pc |-> "idle", val |-> [kind |-> "absent", val |-> <<>>]]
    /\ isOnline = TRUE
    /\ pendingSeen = 0
    /\ nextId = 1
    /\ delivered = {}

\* handleClockIn builds the offline payload after a failure without response
BuildOfflinePayload ==
    /\ probeOut = <<>>
    /\ probeOut' = <<OfflinePayload(probeIn[1], probeIn[2])>>
    /\ UNCHANGED <<apiVars, storeVars, sess, theme, probeIn>>

NextOffline == BuildOfflinePayload

SpecOffline == InitOffline /\ [][NextOffline]_vars

\* C37: the integrity token stored in a queued payload equals the token
\* recomputed from that payload with only the integrity_hash field removed.
C37_StoredTokenIsRecomputable ==
    probeOut # <<>> =>
        ValueOf(probeOut[1], IntegrityHashKey)
            = generateIntegrityHash(Without(probeOut[1], IntegrityHashKey))

(***************************************************************************)
(* Theme and language store (web)                                          *)
(***************************************************************************)
MaxOps == 3

\* applyTheme: the "dark" class of the document and the persisted value
ApplyTheme(r, t) ==
    [r EXCEPT !.dark = (t = "dark"), !.storedTheme = SetItem(r.storedTheme, t)]

\* applyLanguage: document dir and lang, and the persisted value
ApplyLanguage(r, l) ==
    [r EXCEPT !.dir = IF l = "ar" THEN "rtl" ELSE "ltr",
              !.lang = l,
              !.storedLanguage = SetItem(r.storedLanguage, l)]

\* getInitialTheme / getInitialLanguage
GetInitialTheme(st, prefersDark) ==
    IF st # "absent" THEN st ELSE IF prefersDark THEN "dark" ELSE "light"
GetInitialLanguage(sl) == IF sl # "absent" THEN sl ELSE "en"

\* the module is loaded over what localStorage holds: both values are applied
\* and the store is created with them
LoadTheme(st, sl, prefersDark) ==
    LET t == GetInitialTheme(st, prefersDark)
        l == GetInitialLanguage(sl)
        blank == [theme |-> t, language |-> l, storedTheme |-> st, storedLanguage |-> sl,
                  dark |-> FALSE, dir |-> "", lang |-> "", op |-> "load", prev |-> t]
    IN ApplyLanguage(ApplyTheme(blank, t), l)

InitTheme ==
    /\ InitApi
    /\ sess = [user |-> "user", tenant |-> "tenant", pc |-> "idle", result |-> "none"]
    /\ \E st \in {"absent", "light", "dark"}, sl \in {"absent", "en", "ar"},
          prefersDark \in BOOLEAN : theme = LoadTheme(st, sl, prefersDark)
    /\ probeIn = <<>>
    /\ probeOut = <<>>
    /\ platform = "web"
    /\ queue = <<>>
    /\ isSyncing = FALSE
    /\ lastSyncAt = 0
    /\ stored = [kind |-> "absent", val |-> <<>>]
    /\ storageOps = <<>>
    /\ add = [pc |-> "idle", id |-> 0, result |-> "none"]
    /\ drain = [d \in Drains |-> IdleDrain]
    /\ load = [pc |-> "idle", val |-> [kind |-> "absent", val |-> <<>>]]
    /\ isOnline = TRUE
    /\ pendingSeen = 0
    /\ nextId = 1
    /\ delivered = {}

\* toggleTheme; probeOut keeps the operations called so far
ToggleTheme ==
    /\ Len(probeOut) < MaxOps
    /\ LET next == IF theme.theme = "light" THEN "dark" ELSE "light" IN
       theme' = [ApplyTheme(theme, next) EXCEPT !.theme = next, !.op = "toggle",
                                                !.prev = theme.theme]
    /\ probeOut' = Append(probeOut, "toggleTheme")
    /\ UNCHANGED <<apiVars, storeVars, sess, probeIn>>

SetTheme(t) ==
    /\ Len(probeOut) < MaxOps
    /\ theme' = [ApplyTheme(theme, t) EXCEPT !.theme = t, !.op = "setTheme",
                                             !.prev = theme.theme]
    /\ probeOut' = Append(probeOut, "setTheme")
    /\ UNCHANGED <<apiVars, storeVars, sess, probeIn>>

SetLanguage(l) ==
    /\ Len(probeOut) < MaxOps
    /\ theme' = [ApplyLanguage(theme, l) EXCEPT !.language = l, !.op = "setLanguage",
                                                !.prev = theme.theme]
    /\ probeOut' = Append(probeOut, "setLanguage")
    /\ UNCHANGED <<apiVars, storeVars, sess, probeIn>>

NextTheme ==
    \/ ToggleTheme
    \/ \E t \in {"light", "dark"} : SetTheme(t)
    \/ \E l \in {"en", "ar"} : SetLanguage(l)

SpecTheme == InitTheme /\ [][NextTheme]_vars

\* C29: after any sequence of toggleTheme, setTheme and setLanguage the store
\* agrees with its side effects: theme is the persisted inspire_theme,
\* language is the persisted inspire_language, the document direction is rtl
\* exactly when language is ar, and toggleTheme has turned light into dark and
\* dark into light.
C29_ThemeStoreAgreesWithEffects ==
    /\ theme.theme = theme.storedTheme
    /\ theme.language = theme.storedLanguage
    /\ (theme.dir = "rtl") <=> (theme.language = "ar")
    /\ theme.op = "toggle" =>
          /\ theme.prev = "light" => theme.theme = "dark"
          /\ theme.prev = "dark" => theme.theme = "light"

\* a store loaded over an empty localStorage was switched to Arabic and then
\* toggled from dark to light
C29_Witness ==
    /\ Len(probeOut) >= 2
    /\ probeOut[1] = "setLanguage"
    /\ theme.op = "toggle" /\ theme.prev = "dark" /\ theme.theme = "light"
    /\ theme.language = "ar" /\ theme.dir = "rtl"

(***************************************************************************)
(* clearSynced called on its own, on any queue                             *)
(***************************************************************************)
Records == [id : Ids, synced : BOOLEAN, err : {"none", "detail"}]

\* the queues addToQueue and syncAll can build: ids grow with the position
Queues ==
    {q \in UNION {[1..n -> Records] : n \in 0..MAX_QUEUE_SIZE} :
        \A j, k \in 1..Len(q) : j < k => q[j].id < q[k].id}

InitCompact ==
    /\ InitApi
    /\ sess = [user |-> "user", tenant |-> "tenant", pc |-> "idle", result |-> "none"]
    /\ theme = LightEn
    /\ platform = "mobile"
    /\ queue \in Queues
    /\ probeIn = queue
    /\ probeOut = <<>>
    /\ stored \in {[kind |-> "json", val |-> queue], [kind |-> "absent", val |-> <<>>]}
    /\ isSyncing = FALSE
    /\ lastSyncAt = 0
    /\ storageOps = <<>>
    /\ add = [pc |-> "idle", id |-> 0, result |-> "none"]
    /\ drain = [d \in Drains |-> IdleDrain]
    /\ load = [pc |-> "idle", val |-> [kind |-> "absent", val |-> <<>>]]
    /\ isOnline = TRUE
    /\ pendingSeen = PendingCount(queue)
    /\ nextId = MaxEvents + 1
    /\ delivered = {}

\* clearSynced up to its await; a second call follows the first with nothing
\* in between
ClearSynced ==
    /\ storageOps = <<>>
    /\ Len(probeOut) < 2
    /\ queue' = Remaining(queue)
    /\ storageOps' = <<WriteOp("clear", 0, queue')>>
    /\ UNCHANGED <<isSyncing, lastSyncAt, stored, add, drain, load, isOnline,
                   pendingSeen, nextId, delivered>>
    /\ UNCHANGED <<apiVars, sess, theme, probeIn, probeOut>>

\* clearSynced: setObject completed; the call returns
ClearSyncedWritten ==
    /\ storageOps # <<>>
    /\ Head(storageOps).who = "clear" /\ Head(storageOps).d = 0
    /\ stored' = [kind |-> "json", val |-> Head(storageOps).val]
    /\ storageOps' = Tail(storageOps)
    /\ probeOut' = Append(probeOut, [queue |-> queue, stored |-> stored'])
    /\ UNCHANGED <<queue, isSyncing, lastSyncAt, add, drain, load, isOnline,
                   pendingSeen, nextId, delivered>>
    /\ UNCHANGED <<apiVars, sess, theme, probeIn>>

NextCompact ==
    \/ ClearSynced
    \/ ClearSyncedWritten

SpecCompact == InitCompact /\ [][NextCompact]_vars

(***************************************************************************)
(* Clock-in flow (ClockInScreen.handleClockIn) over the API client         *)
(***************************************************************************)
\* the call made by attendanceService.clockIn; the other calls are requests
\* of other screens
ClockInCall == NumCalls

\* handleClockIn after await attendanceService.clockIn(payload) settled:
\* success alert, or catch (apiErr): no response -> addToQueue, else the
\* 'Validation Failed' alert
HandleClockIn ==
    LET c == ClockInCall IN
    /\ call[c].ui = "none"
    /\ \/ /\ call[c].st = "ok"
          /\ call' = [call EXCEPT ![c].ui = "success"]
          /\ UNCHANGED storeVars
       \/ /\ call[c].st = "fail"
          /\ HasResponse(call[c].err)
          /\ call' = [call EXCEPT ![c].ui = "validation"]
          /\ UNCHANGED storeVars
       \/ /\ call[c].st = "fail"
          /\ ~HasResponse(call[c].err)
          /\ call' = [call EXCEPT ![c].ui = "offline"]
          /\ AddToQueueStore
    /\ UNCHANGED <<platform, accessToken, refreshToken, isRefreshing, failedQueue,
                   n401, issued, epExch, lastExToken, authVars, appVars>>

NextClockIn ==
    \/ NextCalls
    \/ HandleClockIn
    \/ AddWritten

\* the mobile app, logged in, the offline queue empty
InitClockIn ==
    /\ InitApi
    /\ InitApp
    /\ platform = "mobile"
    /\ queue = <<>>
    /\ isSyncing = FALSE
    /\ lastSyncAt = 0
    /\ stored = [kind |-> "absent", val |-> <<>>]
    /\ storageOps = <<>>
    /\ add = [pc |-> "idle", id |-> 0, result |-> "none"]
    /\ drain = [d \in Drains |-> IdleDrain]
    /\ load = [pc |-> "idle", val |-> [kind |-> "absent", val |-> <<>>]]
    /\ isOnline = TRUE
    /\ pendingSeen = 0
    /\ nextId = 1
    /\ delivered = {}

SpecClockIn == InitClockIn /\ [][NextClockIn]_vars

\* the call made by attendanceService.clockOut
ClockOutCall == 1

\* handleClockOut after await attendanceService.clockOut(...) settled: success
\* alert, or catch (err): the 'Error' alert with the message
HandleClockOut ==
    LET c == ClockOutCall IN
    /\ call[c].ui = "none"
    /\ \/ /\ call[c].st = "ok"
          /\ call' = [call EXCEPT ![c].ui = "success"]
       \/ /\ call[c].st = "fail"
          /\ call' = [call EXCEPT ![c].ui = "error"]
    /\ UNCHANGED <<platform, accessToken, refreshToken, isRefreshing, failedQueue,
                   n401, issued, epExch, lastExToken, authVars>>
    /\ UNCHANGED <<storeVars, appVars>>

NextAttendance ==
    \/ NextCalls
    \/ HandleClockIn
    \/ HandleClockOut
    \/ AddWritten

\* both attendance screens of the mobile app over the API client
SpecAttendance == InitClockIn /\ [][NextAttendance]_vars

\* C21: when an attendance submission, clock-in or clock-out, has failed with
\* no response from the network, its payload is handed to the offline queue
\* (which stores it or reports that it is full).
C21_UnreachableSubmissionIsQueued ==
    \A c \in {ClockInCall, ClockOutCall} :
        (call[c].ui # "none" /\ call[c].st = "fail" /\ call[c].err = "network")
            => call[c].ui = "offline"

\* C12: a clock-in is put on the offline queue only when its call failed
\* because the transport produced no response; a call that failed with a
\* response, or because the refresh had no token or was rejected, is not
\* queued.
C12_QueuedOnlyWhenNoResponse ==
    call[ClockInCall].ui = "offline"
        => call[ClockInCall].err \in {"network", "refreshnet"}


(***************************************************************************)
(* Properties of the offline queue                                         *)
(***************************************************************************)
\* ids for which addToQueue has returned true
Accepted == {id \in Ids : id < nextId /\ ~(add.pc = "writing" /\ add.id = id)}

SyncedIn(q, id) == \E k \in 1..Len(q) : q[k].id = id /\ q[k].synced

\* drains inside the delivery loop of syncAll
Draining == {d \in Drains : drain[d].pc = "deliver"}

\* drain d puts a delivery on the wire in this step
Submits(d) ==
    /\ drain'[d].pc = "deliver"
    /\ drain[d].pc # "deliver" \/ drain'[d].i # drain[d].i

\* C2: an event addToQueue accepted is in the in-memory and in the persisted
\* queue when addToQueue returns, and leaves either only by clearSynced
\* removing it as a synced event.
C2_AcceptedStaysUntilCompacted ==
    [][/\ (add.pc = "writing" /\ add'.result = "true")
            => (add.id \in IdsOf(queue') /\ add.id \in IdsOf(stored'.val))
       /\ \A id \in Accepted :
            /\ (id \in IdsOf(queue) /\ id \notin IdsOf(queue'))
                  => /\ SyncedIn(queue, id)
                     /\ \E d \in Drains : drain[d].pc = "persist" /\ drain'[d].pc = "clear"
            /\ (id \in IdsOf(stored.val) /\ id \notin IdsOf(stored'.val))
                  => /\ SyncedIn(stored.val, id)
                     /\ \E d \in Drains : drain[d].pc = "clear" /\ drain'[d].pc = "done"
      ]_vars

\* C3: at most one drain (syncAll) is executing at any time.
C3_SingleDrain == Cardinality(Draining) <= 1

\* C4: an event the backend has accepted is never submitted again.
C4_NoResubmission ==
    [][\A d \in Drains :
          Submits(d) => drain'[d].pending[drain'[d].i] \notin delivered']_vars

\* C5: synced never changes from true back to false, in memory or in
\* persistence.
C5_SyncedMonotonic ==
    [][\A id \in Ids :
          /\ (SyncedIn(queue, id) /\ id \in IdsOf(queue')) => SyncedIn(queue', id)
          /\ (SyncedIn(stored.val, id) /\ id \in IdsOf(stored'.val))
                => SyncedIn(stored'.val, id)]_vars

\* C9: the in-memory queue and the persisted queue each hold at most
\* MAX_QUEUE_SIZE events.
C9_QueueBounded ==
    /\ Len(queue) <= MAX_QUEUE_SIZE
    /\ Len(stored.val) <= MAX_QUEUE_SIZE

\* both queues are at the limit again after a compaction made room
C9_Witness ==
    /\ Len(queue) = MAX_QUEUE_SIZE
    /\ Len(stored.val) = MAX_QUEUE_SIZE
    /\ nextId > MAX_QUEUE_SIZE + 1

\* C10: addToQueue on a full queue returns false and changes neither the
\* in-memory queue nor the persisted queue, and hands nothing to the storage.
C10_FullAddIsNoop ==
    [][(add.pc = "idle" /\ add' # add /\ Len(queue) >= MAX_QUEUE_SIZE)
          => /\ add'.pc = "idle"
             /\ add'.result = "false"
             /\ queue' = queue
             /\ stored' = stored
             /\ storageOps' = storageOps]_vars

\* addToQueue has just returned false on a full queue
C10_Witness ==
    /\ add.pc = "idle"
    /\ add.result = "false"
    /\ Len(queue) = MAX_QUEUE_SIZE
    /\ stored.val = queue

\* the entry of q with the given id carries a syncError
ErrorIn(q, id) == \E k \in 1..Len(q) : q[k].id = id /\ q[k].err # "none"

\* C13: within one drain the pending events are delivered one at a time in
\* insertion order: the pending list follows the order of the queue (ids grow
\* with insertion), and the event being delivered is preceded only by events
\* whose delivery has settled.
C13_DrainInInsertionOrder ==
    \A d \in Drains :
        drain[d].pc = "deliver" =>
            LET dr == drain[d] IN
            /\ dr.i \in 1..Len(dr.pending)
            /\ \A j, k \in 1..Len(dr.pending) :
                   j < k => /\ dr.pending[j] < dr.pending[k]
                            /\ FindIndex(dr.updated, dr.pending[j])
                                  < FindIndex(dr.updated, dr.pending[k])
            /\ \A j \in 1..(dr.i - 1) :
                   SyncedIn(dr.updated, dr.pending[j]) \/ ErrorIn(dr.updated, dr.pending[j])
            /\ \A k \in dr.i..Len(dr.pending) : ~SyncedIn(dr.updated, dr.pending[k])

\* the first of two pending events has settled and the second is on the wire
C13_Witness ==
    \E d \in Drains :
        /\ drain[d].pc = "deliver"
        /\ Len(drain[d].pending) >= 2
        /\ drain[d].i = 2
        /\ drain[d].pending[1] < drain[d].pending[2]

\* C14: a drain attempts every event that was unsynced when it started
\* exactly once, goes on after a failed delivery, and returns {synced, failed}
\* with synced + failed the number pending at its start, synced the number it
\* marked synced and failed the number it gave a syncError.
C14_DrainCountsEveryPending ==
    \A d \in Drains :
        LET dr == drain[d]
            n == Len(dr.pending)
        IN
        /\ dr.pc = "deliver" => dr.synced + dr.failed = dr.i - 1
        /\ dr.pc \in {"persist", "clear"} =>
              /\ dr.i = n
              /\ dr.synced + dr.failed = n
              /\ dr.synced = Cardinality({k \in 1..n : SyncedIn(dr.updated, dr.pending[k])})
              /\ dr.failed = Cardinality({k \in 1..n :
                                 /\ ~SyncedIn(dr.updated, dr.pending[k])
                                 /\ ErrorIn(dr.updated, dr.pending[k])})
              /\ \A k \in 1..Len(dr.updated) :
                    ~dr.updated[k].synced
                        => \E j \in 1..n : dr.pending[j] = dr.updated[k].id

\* a drain of two events has returned {1, 1}: the first delivery failed and
\* the second was still attempted and accepted
C14_Witness ==
    \E d \in Drains :
        /\ drain[d].pc \in {"persist", "clear"}
        /\ Len(drain[d].pending) = 2
        /\ drain[d].synced = 1 /\ drain[d].failed = 1
        /\ ErrorIn(drain[d].updated, drain[d].pending[1])
        /\ SyncedIn(drain[d].updated, drain[d].pending[2])

\* C20: an event whose delivery the backend rejected with a business-rule
\* response (its syncError is the detail of that response) is not submitted
\* again by a later drain.
C20_RejectedNotResubmitted ==
    [][\A d \in Drains :
          Submits(d) =>
              LET dr == drain'[d]
                  id == dr.pending[dr.i]
              IN \A k \in 1..Len(dr.updated) :
                    dr.updated[k].id = id => dr.updated[k].err # "detail"]_vars

\* C19: with events queued while offline, an observed offline-to-online
\* transition with an event pending starts a drain in the same step, without
\* a user action; while the backend accepts every delivery, eventually all
\* the queued events have been delivered and, the compaction written, the
\* in-memory and the persisted queue are empty.
C19_ReconnectDrainsQueue ==
    /\ [][(~isOnline /\ isOnline' /\ PendingCount(queue) > 0
              /\ \E d \in Drains : drain[d].pc = "idle")
            => \E d \in Drains : drain[d].pc = "idle" /\ drain'[d].pc = "deliver"]_vars
    /\ (isOnline /\ PendingCount(queue) > 0)
          ~> (/\ delivered = 1..(nextId - 1)
              /\ queue = <<>>
              /\ stored.val = <<>>)

\* C22: clearSynced called twice in a row leaves the same in-memory and
\* persisted queue as clearSynced called once.
C22_ClearSyncedIdempotent ==
    Len(probeOut) = 2 => probeOut[1] = probeOut[2]

\* the first call removed a synced event and kept an unsynced one, and the
\* second call has returned
C22_Witness ==
    /\ Len(probeOut) = 2
    /\ Len(probeIn) = 2
    /\ Len(probeOut[1].queue) = 1

\* C23: clearSynced removes exactly the synced events: every unsynced event
\* of the queue it was called on is in the result, unchanged and in the same
\* relative order, nothing else is, and the persisted queue is that result.
C23_ClearSyncedRemovesExactlySynced ==
    Len(probeOut) >= 1 =>
        LET r == probeOut[1].queue IN
        /\ \A k \in 1..Len(r) :
              ~r[k].synced /\ \E j \in 1..Len(probeIn) : probeIn[j] = r[k]
        /\ \A j \in 1..Len(probeIn) :
              ~probeIn[j].synced => \E k \in 1..Len(r) : r[k] = probeIn[j]
        /\ \A j, k \in 1..Len(r) :
              j < k => FindIndex(probeIn, r[j].id) < FindIndex(probeIn, r[k].id)
        /\ probeOut[1].stored = [kind |-> "json", val |-> r]

\* clearSynced was called on a synced event followed by an unsynced one that
\* carries a syncError, and kept the second
C23_Witness ==
    /\ Len(probeOut) >= 1
    /\ Len(probeIn) = 2
    /\ probeIn[1].synced /\ ~probeIn[2].synced /\ probeIn[2].err = "detail"
    /\ probeOut[1].queue = <<probeIn[2]>>

\* C24: loadQueue never fails on missing or corrupt persisted data: when the
\* value read is absent or not parseable the load completes without error and
\* leaves the in-memory queue as it was, which at startup is the empty queue.
C24_LoadQueueToleratesBadData ==
    [][(load.pc = "got" /\ load.val.kind \in {"absent", "corrupt"} /\ load'.pc # "got")
          => /\ load'.pc = "idle"
             /\ queue' = queue
             /\ (nextId = 1 => queue' = <<>>)]_vars

\* the startup load ran over unparseable data and has completed, with nothing
\* added meanwhile
C24_Witness ==
    /\ stored.kind = "corrupt"
    /\ load.pc = "idle"
    /\ storageOps = <<>>
    /\ nextId = 1
    /\ queue = <<>>

\* C28: every network call of the client, the refresh exchange included,
\* carries the timeout, so a request on the wire and an exchange in flight
\* both eventually settle.
C28_EveryCallSettles ==
    \A c \in Calls :
        /\ (call[c].st = "sent") ~> (call[c].st # "sent")
        /\ (call[c].st = "exchange") ~> (call[c].st # "exchange")

\* the record of event id in queue q (id is in q)
EntryOf(q, id) == q[FindIndex(q, id)]

\* C30: during a drain each delivery outcome is recorded on exactly one entry,
\* the one with the delivered event's id, and that entry is in the in-memory
\* queue and in the persisted queue when the next delivery attempt begins.
C30_OutcomePersistedBeforeNextDelivery ==
    [][\A d \in Drains :
          (drain[d].pc = "deliver" /\ drain'[d] # drain[d]) =>
              LET id == drain[d].pending[drain[d].i]
                  old == drain[d].updated
                  new == drain'[d].updated
              IN
              /\ Len(new) = Len(old)
              /\ \A k \in 1..Len(old) : old[k].id # id => new[k] = old[k]
              /\ drain'[d].pc = "deliver" =>
                    /\ id \in IdsOf(queue') /\ EntryOf(queue', id) = EntryOf(new, id)
                    /\ id \in IdsOf(stored'.val)
                    /\ EntryOf(stored'.val, id) = EntryOf(new, id)
      ]_vars

\* no addToQueue, syncAll, clearSynced or loadQueue call is running and no
\* storage operation is outstanding
Quiescent ==
    /\ add.pc = "idle"
    /\ load.pc = "idle"
    /\ \A d \in Drains : drain[d].pc \in {"idle", "done"}
    /\ storageOps = <<>>

InExchange(st) == st \in {"exchange", "setAccess", "rmAccess", "rmRefresh"}

\* C32: a logout that completed while a refresh exchange was in flight is not
\* undone by it: when that refresh settles, no access token is stored.
C32_RefreshDoesNotUndoLogout ==
    [][\A c \in Calls :
          (sess.pc = "done" /\ InExchange(call[c].st) /\ ~InExchange(call'[c].st))
              => accessToken' = 0]_vars

C34_RefreshTokenStaysUsable ==
    [][\A c \in Calls :
          (call[c].st \in {"exchange", "setAccess"} /\ call'[c].st = "sent")
              => refreshToken' = IF call'[c].exRefresh # 0 THEN call'[c].exRefresh
                                 ELSE call'[c].rt]_vars

\* C35: a drain works on the snapshot of the events that were pending when it
\* started and runs over all of it: the snapshot is exactly the unsynced
\* events of that moment, it does not change while the drain delivers (events
\* enqueued meanwhile are not attempted), the attempts advance one snapshot
\* entry at a time, and the drain leaves the delivery loop only after the
\* last snapshot entry has been attempted.
C35_DrainRunsOverItsSnapshot ==
    [][\A d \in Drains :
          /\ (drain[d].pc # "deliver" /\ drain'[d].pc = "deliver") =>
                /\ drain'[d].i = 1
                /\ {drain'[d].pending[k] : k \in 1..Len(drain'[d].pending)}
                      = {queue[k].id : k \in {j \in 1..Len(queue) : ~queue[j].synced}}
          /\ (drain[d].pc = "deliver" /\ drain'[d].pc = "deliver") =>
                /\ drain'[d].pending = drain[d].pending
                /\ drain'[d].i \in {drain[d].i, drain[d].i + 1}
                /\ drain'[d].i <= Len(drain[d].pending)
          /\ (drain[d].pc = "deliver" /\ drain'[d].pc # "deliver") =>
                /\ drain[d].i = Len(drain[d].pending)
                /\ drain'[d].pc = "persist"
                /\ drain'[d].synced + drain'[d].failed = Len(drain[d].pending)
      ]_vars

\* an event was enqueued while a drain is delivering: it is in the queue and
\* not in the drain's snapshot
C35_Witness ==
    \E d \in Drains :
        /\ drain[d].pc = "deliver"
        /\ \E k \in 1..Len(queue) :
              /\ ~queue[k].synced
              /\ \A j \in 1..Len(drain[d].pending) : drain[d].pending[j] # queue[k].id

\* C36: a drain changes only the synced and syncError fields of the events it
\* attempted: when it writes its result to the store every event of the queue
\* is still there with its id, in the same relative order, no event has
\* appeared, and the events it did not attempt are unchanged in every field.
C36_DrainChangesOnlyOutcomeFields ==
    [][\A d \in Drains :
          (drain[d].pc = "deliver" /\ drain'[d].pc = "persist") =>
              LET attempted == {drain[d].pending[k] : k \in 1..Len(drain[d].pending)} IN
              /\ Len(queue') = Len(queue)
              /\ \A k \in 1..Len(queue) :
                    /\ queue[k].id \in IdsOf(queue')
                    /\ queue[k].id \notin attempted => EntryOf(queue', queue[k].id) = queue[k]
              /\ \A j, k \in 1..Len(queue) :
                    (j < k /\ queue[j].id \in IdsOf(queue') /\ queue[k].id \in IdsOf(queue'))
                        => FindIndex(queue', queue[j].id) < FindIndex(queue', queue[k].id)
      ]_vars

\* C38: isSyncing is true exactly while a drain is executing: true whenever
\* some syncAll is inside its delivery loop, false whenever none is.
C38_IsSyncingTracksDrain ==
    isSyncing <=> (Draining # {})

\* h := 31 * h + charCode wrapped to 32 bits, from the first character on
RECURSIVE Times31Loop(_, _)
Times31Loop(data, h) ==
    IF data = <<>> THEN h
    ELSE LET lo == 31 * h.lo + Head(data)
             hi == 31 * h.hi + lo \div 65536
             next == [hi |-> hi % 65536, lo |-> lo % 65536]
         IN IF next.lo >= 0 THEN Times31Loop(Tail(data), next) ELSE next

\* a is the absolute value of the signed 32-bit integer with pattern h
IsAbsOf(a, h) ==
    IF h.hi < 32768 THEN a = h
    ELSE /\ (a.lo + h.lo) % 65536 = 0
         /\ (a.hi + h.hi + (a.lo + h.lo) \div 65536) % 65536 = 0

\* the number written by four hexadecimal digits
FromHex4(ds) == 4096 * ds[1] + 256 * ds[2] + 16 * ds[3] + ds[4]

====
